---- MODULE Spec2Model ----
(***************************************************************************)
(* Model of the hybrid aligner of local-llm-pdf-ocr                        *)
(* (src/hybrid_aligner.py): HybridAligner.get_structured_text followed by  *)
(* HybridAligner.align_text, one page at a time.                           *)
(*                                                                         *)
(* Representation.                                                         *)
(*  - A Python str is a sequence of one-character strings.                 *)
(*  - A normalized coordinate (a float in 0..1) is an integer number of    *)
(*    thousandths: 0.02 is 20, 0.98 is 980, [0,0,1,0.1] is <<0,0,1000,100>>.*)
(*    The inputs are chosen so that every product and quotient the code    *)
(*    forms is exact in thousandths.                                       *)
(*  - A (rect, text) tuple is <<rect, text>>; Python's b[0] is b[1] here.  *)
(*  - A fuzz.ratio score 100 * 2*LCS / (len1 + len2) is kept as the exact  *)
(*    fraction [num |-> 2*LCS, den |-> len1 + len2].                       *)
(***************************************************************************)
EXTENDS Integers, Sequences, FiniteSets, TLC

\* Bounds of the model.
MaxBoxes == 3
MaxLines == 2

\* Program constants.
window_size == 100
score_threshold == 80
wrap_len == 50

Min(a, b) == IF a < b THEN a ELSE b
Max(a, b) == IF a > b THEN a ELSE b

RECURSIVE SeqMin(_)
SeqMin(s) == IF Len(s) = 1 THEN s[1] ELSE Min(s[1], SeqMin(Tail(s)))

RECURSIVE SeqMax(_)
SeqMax(s) == IF Len(s) = 1 THEN s[1] ELSE Max(s[1], SeqMax(Tail(s)))

\* Python slice s[lo:hi] for 0 <= lo, with hi clamped to len(s).
Slice(s, lo, hi) ==
    LET h == Min(hi, Len(s))
    IN  IF lo >= h THEN <<>> ELSE [k \in 1..(h - lo) |-> s[lo + k]]

SeqsUpTo(S, n) == UNION {[1..k -> S] : k \in 0..n}

(***************************************************************************)
(* Characters and the str methods the aligner uses.                        *)
(***************************************************************************)
Whitespace == {" ", "\n"}
Punctuation == {".", "-", ","}
ToLower == [c \in {"A", "X"} |-> IF c = "A" THEN "a" ELSE "x"]

lower(s) == [i \in 1..Len(s) |-> IF s[i] \in DOMAIN ToLower THEN ToLower[s[i]] ELSE s[i]]

RECURSIVE lstrip(_)
lstrip(s) ==
    IF s = <<>> THEN s
    ELSE IF Head(s) \in Whitespace THEN lstrip(Tail(s)) ELSE s

RECURSIVE rstrip(_)
rstrip(s) ==
    IF s = <<>> THEN s
    ELSE IF s[Len(s)] \in Whitespace THEN rstrip(SubSeq(s, 1, Len(s) - 1)) ELSE s

strip(s) == rstrip(lstrip(s))

\* str.split() with no argument: the maximal runs of non-whitespace characters,
\* in order of their first character.
split(s) ==
    LET starts == {i \in 1..Len(s) :
                      /\ s[i] \notin Whitespace
                      /\ (IF i = 1 THEN TRUE ELSE s[i - 1] \in Whitespace)}
        EndOf(i) == CHOOSE j \in i..Len(s) :
                      /\ \A k \in i..j : s[k] \notin Whitespace
                      /\ (IF j = Len(s) THEN TRUE ELSE s[j + 1] \in Whitespace)
        StartNo(n) == CHOOSE i \in starts : Cardinality({h \in starts : h < i}) = n - 1
    IN  [n \in 1..Cardinality(starts) |-> SubSeq(s, StartNo(n), EndOf(StartNo(n)))]

\* sep.join(xs)
RECURSIVE join(_, _)
join(sep, xs) ==
    IF xs = <<>> THEN <<>>
    ELSE IF Len(xs) = 1 THEN xs[1]
    ELSE xs[1] \o sep \o join(sep, Tail(xs))

\* HybridAligner._clean_text: lower, strip, delete string.punctuation.
clean_text(text) == SelectSeq(strip(lower(text)), LAMBDA c : c \notin Punctuation)

(***************************************************************************)
(* rapidfuzz: fuzz.ratio and process.extractOne.                           *)
(***************************************************************************)
RECURSIVE LcsRow(_, _, _, _)
LcsRow(c, t, P, N) ==
    IF Len(N) = Len(t) + 1 THEN N
    ELSE LET j == Len(N)
         IN  LcsRow(c, t, P,
                    Append(N, IF c = t[j] THEN P[j] + 1 ELSE Max(P[j + 1], N[j])))

RECURSIVE LcsRows(_, _, _)
LcsRows(s, t, P) ==
    IF s = <<>> THEN P ELSE LcsRows(Tail(s), t, LcsRow(Head(s), t, P, <<0>>))

\* Length of a longest common subsequence of s and t.
LCS(s, t) ==
    LET a == IF Len(s) <= Len(t) THEN s ELSE t
        b == IF Len(s) <= Len(t) THEN t ELSE s
    IN  LcsRows(a, b, [j \in 1..(Len(b) + 1) |-> 0])[Len(b) + 1]

\* fuzz.ratio(s1, s2) = 100 * (1 - indel_distance / (len1 + len2)), and 100
\* for two empty strings; kept as the fraction num/den of 100.
ratio(s1, s2) ==
    IF Len(s1) + Len(s2) = 0 THEN [num |-> 1, den |-> 1]
    ELSE [num |-> 2 * LCS(s1, s2), den |-> Len(s1) + Len(s2)]

ScoreGT(a, b) == a.num * b.den > b.num * a.den

NoMatch == [found |-> FALSE, score |-> [num |-> 0, den |-> 1], offset |-> 0]

\* process.extractOne(query, choices, scorer=fuzz.ratio): None for no choices,
\* else the first choice of maximal score, with its score and 0-based index.
RECURSIVE ExtractLoop(_, _, _, _)
ExtractLoop(query, choices, i, best) ==
    IF i > Len(choices) THEN best
    ELSE LET sc == ratio(query, choices[i])
         IN  IF (~best.found) \/ ScoreGT(sc, best.score)
             THEN ExtractLoop(query, choices, i + 1,
                              [found |-> TRUE, score |-> sc, offset |-> i - 1])
             ELSE ExtractLoop(query, choices, i + 1, best)

extractOne(query, choices) == ExtractLoop(query, choices, 1, NoMatch)

\* Mutant of ScoreAccepted: the threshold taken as inclusive.
ScoreAcceptedInclusive(score) == 100 * score.num >= score_threshold * score.den

\* `if score > 80`
ScoreAccepted(score) == 100 * score.num > score_threshold * score.den

(***************************************************************************)
(* Inputs.                                                                 *)
(***************************************************************************)
S_abc == <<"a", "b", "c">>
LongTok == [i \in 1..26 |-> "z"]

\* EasyOCR detections (bbox polygon in pixels, recognized text).
Det1 == [bbox |-> <<<<20, 20>>, <<60, 20>>, <<60, 28>>, <<20, 28>>>>, text |-> S_abc]
Det2 == [bbox |-> <<<<70, 23>>, <<120, 23>>, <<120, 31>>, <<70, 31>>>>, text |-> <<"X", ".">>]
Det3 == [bbox |-> <<<<130, 27>>, <<150, 26>>, <<149, 34>>, <<131, 33>>>>, text |-> <<"q">>]
Det4 == [bbox |-> <<<<40, 60>>, <<40, 60>>, <<40, 68>>, <<40, 68>>>>, text |-> <<"-">>]
Det5 == [bbox |-> <<<<40, 100>>, <<40, 100>>, <<40, 108>>, <<40, 108>>>>, text |-> <<" ">>]
Detections == {Det1, Det2, Det3, Det4, Det5}

ImgSizes == {<<200, 200>>}

\* Lines of the content stream.
Line_empty == <<>>
Line_ab_x == <<"A", "b", ".", " ", "x">>
Line_abcd_abc == <<"a", "b", "c", "d", " ", " ", "a", "b", "c">>
Line_long == LongTok
Lines == {Line_empty, Line_ab_x, Line_abcd_abc, Line_long}

\* llm_text: None, a str, or a list of str.
Contents ==
    {[kind |-> "none", s |-> <<>>, lines |-> <<>>]}
    \cup {[kind |-> "str", s |-> l, lines |-> <<>>] : l \in Lines}
    \cup {[kind |-> "list", s |-> <<>>, lines |-> ls] : ls \in SeqsUpTo(Lines, MaxLines)}

\* The `text` of the end sentinel appended to matches.
None == <<"None">>

VARIABLES
    pc,              \* position in the page's processing
    results,         \* reader.readtext output
    img,             \* <<img_w, img_h>>
    structured_data, \* get_structured_text's return value
    llm_text,        \* align_text's second argument
    full_llm_text,
    llm_tokens,
    box_idx,         \* number of boxes the matching loop has processed
    llm_search_idx,
    match,           \* extractOne's result for the box last processed
    matches,
    anchor_pos,      \* number of entries of matches the second loop has processed
    prev_box_idx,
    prev_llm_idx,
    gap_tokens,      \* locals of the second loop's last iteration
    gap_boxes,
    rows,
    total_width,
    gap_out,         \* elements that iteration appended for its gap
    final_output,
    ret              \* align_text's return value

vars == <<pc, results, img, structured_data, llm_text, full_llm_text, llm_tokens,
          box_idx, llm_search_idx, match, matches, anchor_pos, prev_box_idx,
          prev_llm_idx, gap_tokens, gap_boxes, rows, total_width, gap_out,
          final_output, ret>>

Init ==
    /\ pc = "extract"
    /\ results \in SeqsUpTo(Detections, MaxBoxes)
    /\ img \in ImgSizes
    /\ llm_text \in Contents
    /\ structured_data = <<>>
    /\ full_llm_text = <<>>
    /\ llm_tokens = <<>>
    /\ box_idx = 0
    /\ llm_search_idx = 0
    /\ match = NoMatch
    /\ matches = <<>>
    /\ anchor_pos = 0
    /\ prev_box_idx = -1
    /\ prev_llm_idx = -1
    /\ gap_tokens = <<>>
    /\ gap_boxes = <<>>
    /\ rows = <<>>
    /\ total_width = 0
    /\ gap_out = <<>>
    /\ final_output = <<>>
    /\ ret = <<>>

(***************************************************************************)
(* get_structured_text                                                     *)
(***************************************************************************)
\* Bounding rect of a polygon, normalized by the image size (in thousandths).
BoxRect(bbox, img_w, img_h) ==
    LET xs == [k \in 1..Len(bbox) |-> bbox[k][1]]
        ys == [k \in 1..Len(bbox) |-> bbox[k][2]]
    IN  <<(SeqMin(xs) * 1000) \div img_w, (SeqMin(ys) * 1000) \div img_h,
          (SeqMax(xs) * 1000) \div img_w, (SeqMax(ys) * 1000) \div img_h>>

GetStructuredText ==
    /\ pc = "extract"
    /\ structured_data' =
           [k \in 1..Len(results) |->
               <<BoxRect(results[k].bbox, img[1], img[2]), results[k].text>>]
    /\ pc' = "align"
    /\ UNCHANGED <<results, img, llm_text, full_llm_text, llm_tokens, box_idx,
                   llm_search_idx, match, matches, anchor_pos, prev_box_idx,
                   prev_llm_idx, gap_tokens, gap_boxes, rows, total_width,
                   gap_out, final_output, ret>>

(***************************************************************************)
(* align_text: entry                                                       *)
(***************************************************************************)
\* `not llm_text`: None, the empty str, the empty list.
IsFalsy(t) ==
    CASE t.kind = "none" -> TRUE
      [] t.kind = "str" -> t.s = <<>>
      [] OTHER -> t.lines = <<>>

\* full_llm_text: the lines joined by single spaces, or the str itself.
FullText(t) == IF t.kind = "list" THEN join(<<" ">>, t.lines) ELSE t.s

\* The two early returns hand back structured_data.
ReturnsEarly(t) == IF IsFalsy(t) THEN TRUE ELSE split(FullText(t)) = <<>>

\* Mutant of PassthroughValue: an empty list handed back for empty content.
PassthroughValueEmpty(sd) == <<>>

\* `return structured_data`
PassthroughValue(sd) == sd

AlignPassthrough ==
    /\ pc = "align"
    /\ ReturnsEarly(llm_text)
    /\ ret' = PassthroughValue(structured_data)
    /\ pc' = "done"
    /\ UNCHANGED <<results, img, structured_data, llm_text, full_llm_text,
                   llm_tokens, box_idx, llm_search_idx, match, matches,
                   anchor_pos, prev_box_idx, prev_llm_idx, gap_tokens, gap_boxes,
                   rows, total_width, gap_out, final_output>>

AlignStart ==
    /\ pc = "align"
    /\ ~ReturnsEarly(llm_text)
    /\ full_llm_text' = FullText(llm_text)
    /\ llm_tokens' = split(FullText(llm_text))
    /\ matches' = <<>>
    /\ llm_search_idx' = 0
    /\ box_idx' = 0
    /\ pc' = "match"
    /\ UNCHANGED <<results, img, structured_data, llm_text, match, anchor_pos,
                   prev_box_idx, prev_llm_idx, gap_tokens, gap_boxes, rows,
                   total_width, gap_out, final_output, ret>>

(***************************************************************************)
(* align_text: 1. Identify Anchors                                         *)
(***************************************************************************)
CurBox == structured_data[box_idx + 1]

\* The two `continue`s at the top of the loop body.
BoxSkipped(box_text) ==
    IF strip(box_text) = <<>> THEN TRUE ELSE clean_text(box_text) = <<>>

Candidates(tokens, search_idx) ==
    Slice(tokens, search_idx, Min(Len(tokens), search_idx + window_size))

CleanCandidates(cands) == [k \in 1..Len(cands) |-> clean_text(cands[k])]

BoxMatch(box_text, tokens, search_idx) ==
    extractOne(clean_text(box_text), CleanCandidates(Candidates(tokens, search_idx)))

\* Mutant of NextSearchIdx: the cursor left on the matched token.
NextSearchIdxSame(real_llm_idx) == real_llm_idx

\* `llm_search_idx = real_llm_idx + 1`
NextSearchIdx(real_llm_idx) == real_llm_idx + 1

MatchFrame ==
    UNCHANGED <<pc, results, img, structured_data, llm_text, full_llm_text, llm_tokens,
                anchor_pos, prev_box_idx, prev_llm_idx, gap_tokens, gap_boxes,
                rows, total_width, gap_out, final_output, ret>>

MatchSkip ==
    /\ pc = "match"
    /\ box_idx < Len(structured_data)
    /\ BoxSkipped(CurBox[2])
    /\ box_idx' = box_idx + 1
    /\ UNCHANGED <<llm_search_idx, match, matches>>
    /\ MatchFrame

MatchEmptyWindow ==
    /\ pc = "match"
    /\ box_idx < Len(structured_data)
    /\ ~BoxSkipped(CurBox[2])
    /\ ~BoxMatch(CurBox[2], llm_tokens, llm_search_idx).found
    /\ match' = BoxMatch(CurBox[2], llm_tokens, llm_search_idx)
    /\ box_idx' = box_idx + 1
    /\ UNCHANGED <<llm_search_idx, matches>>
    /\ MatchFrame

MatchAccept ==
    /\ pc = "match"
    /\ box_idx < Len(structured_data)
    /\ ~BoxSkipped(CurBox[2])
    /\ LET m == BoxMatch(CurBox[2], llm_tokens, llm_search_idx)
           real_llm_idx == llm_search_idx + m.offset
       IN  /\ m.found
           /\ ScoreAccepted(m.score)
           /\ match' = m
           /\ matches' = Append(matches,
                  [box_idx |-> box_idx,
                   llm_idx |-> real_llm_idx,
                   text |-> Candidates(llm_tokens, llm_search_idx)[m.offset + 1],
                   rect |-> CurBox[1]])
           /\ llm_search_idx' = NextSearchIdx(real_llm_idx)
    /\ box_idx' = box_idx + 1
    /\ MatchFrame

\* Mutant of MatchReject: a rejected box still consumes the token it scored best on.
MatchRejectAdvancing ==
    /\ pc = "match"
    /\ box_idx < Len(structured_data)
    /\ ~BoxSkipped(CurBox[2])
    /\ LET m == BoxMatch(CurBox[2], llm_tokens, llm_search_idx)
       IN  /\ m.found
           /\ ~ScoreAccepted(m.score)
           /\ match' = m
           /\ llm_search_idx' = llm_search_idx + m.offset + 1
    /\ box_idx' = box_idx + 1
    /\ UNCHANGED matches
    /\ MatchFrame

MatchReject ==
    /\ pc = "match"
    /\ box_idx < Len(structured_data)
    /\ ~BoxSkipped(CurBox[2])
    /\ LET m == BoxMatch(CurBox[2], llm_tokens, llm_search_idx)
       IN  /\ m.found
           /\ ~ScoreAccepted(m.score)
           /\ match' = m
    /\ box_idx' = box_idx + 1
    /\ UNCHANGED <<llm_search_idx, matches>>
    /\ MatchFrame

\* The end sentinel is appended and the second loop's locals are initialized.
BeginReconstruct ==
    /\ pc = "match"
    /\ box_idx = Len(structured_data)
    /\ matches' = Append(matches,
           [box_idx |-> Len(structured_data), llm_idx |-> Len(llm_tokens),
            text |-> None, rect |-> None])
    /\ final_output' = <<>>
    /\ prev_box_idx' = -1
    /\ prev_llm_idx' = -1
    /\ anchor_pos' = 0
    /\ pc' = "reconstruct"
    /\ UNCHANGED <<results, img, structured_data, llm_text, full_llm_text,
                   llm_tokens, box_idx, llm_search_idx, match, gap_tokens,
                   gap_boxes, rows, total_width, gap_out, ret>>

(***************************************************************************)
(* align_text: 2. Reconstruct Page with Line-Aware Gap Filling             *)
(***************************************************************************)
\* `intersection > (min_height * 0.5)` for two rects.
SameLine(prev_b, curr_b) ==
    LET inter_y0 == Max(prev_b[2], curr_b[2])
        inter_y1 == Min(prev_b[4], curr_b[4])
        intersection == Max(0, inter_y1 - inter_y0)
        min_height == Min(prev_b[4] - prev_b[2], curr_b[4] - curr_b[2])
    IN  2 * intersection > min_height

\* Mutant of GroupLoop: a box is compared with the first box of the current row.
RECURSIVE GroupLoopFirst(_, _, _)
GroupLoopFirst(boxes, i, rs) ==
    IF i > Len(boxes) THEN rs
    ELSE LET current_row == rs[Len(rs)]
         IN  IF SameLine(current_row[1][1], boxes[i][1])
             THEN GroupLoopFirst(boxes, i + 1, [rs EXCEPT ![Len(rs)] = Append(@, boxes[i])])
             ELSE GroupLoopFirst(boxes, i + 1, Append(rs, <<boxes[i]>>))

\* `for i in range(1, len(gap_boxes))`: i is the 1-based position of the box,
\* the current row is the last row of rs.
RECURSIVE GroupLoop(_, _, _)
GroupLoop(boxes, i, rs) ==
    IF i > Len(boxes) THEN rs
    ELSE LET current_row == rs[Len(rs)]
             prev_b == current_row[Len(current_row)][1]
             curr_b == boxes[i][1]
         IN  IF SameLine(prev_b, curr_b)
             THEN GroupLoop(boxes, i + 1, [rs EXCEPT ![Len(rs)] = Append(@, boxes[i])])
             ELSE GroupLoop(boxes, i + 1, Append(rs, <<boxes[i]>>))

\* The rows of a non-empty list of gap boxes.
GroupRows(boxes) == GroupLoop(boxes, 2, <<<<boxes[1]>>>>)

\* Union width of a row: max(x1) - min(x0).
RowWidth(row) ==
    SeqMax([k \in 1..Len(row) |-> row[k][1][3]])
        - SeqMin([k \in 1..Len(row) |-> row[k][1][1]])

RECURSIVE SeqSum(_)
SeqSum(s) == IF s = <<>> THEN 0 ELSE s[1] + SeqSum(Tail(s))

\* int(round(num / den)) for num >= 0, den > 0: Python 3 rounds half to even.
RoundHalfEven(num, den) ==
    LET q == num \div den
        r == num % den
    IN  IF 2 * r < den THEN q
        ELSE IF 2 * r > den THEN q + 1
        ELSE IF q % 2 = 0 THEN q ELSE q + 1

UnionRect(row) ==
    <<SeqMin([k \in 1..Len(row) |-> row[k][1][1]]),
      SeqMin([k \in 1..Len(row) |-> row[k][1][2]]),
      SeqMax([k \in 1..Len(row) |-> row[k][1][3]]),
      SeqMax([k \in 1..Len(row) |-> row[k][1][4]])>>

\* The element of one row's chunk, with the wrap newline.
RowElement(row, chunk) ==
    LET gap_text == join(<<" ">>, chunk)
    IN  <<UnionRect(row),
          IF Len(gap_text) > wrap_len THEN gap_text \o <<"\n">> ELSE gap_text>>

\* `for i, row in enumerate(rows)`: i is the 1-based row, token_start as in the code.
RECURSIVE AssignLoop(_, _, _, _, _, _)
AssignLoop(rs, row_widths, tw, toks, i, token_start) ==
    IF i > Len(rs) THEN <<>>
    ELSE LET count0 == RoundHalfEven(Len(toks) * row_widths[i], tw)
             count == IF count0 = 0 /\ Len(toks) > 0 /\ token_start < Len(toks)
                      THEN 1 ELSE count0
             chunk == IF tw = 0 THEN toks
                      ELSE IF i = Len(rs) THEN Slice(toks, token_start, Len(toks))
                      ELSE Slice(toks, token_start, token_start + count)
             next_start == IF tw = 0 \/ i = Len(rs) THEN token_start
                           ELSE token_start + count
             rest == AssignLoop(rs, row_widths, tw, toks, i + 1, next_start)
         IN  IF chunk = <<>> THEN rest ELSE <<RowElement(rs[i], chunk)>> \o rest

\* The elements appended for a gap that has tokens and boxes.
GapRowElements(toks, rs) ==
    LET row_widths == [k \in 1..Len(rs) |-> RowWidth(rs[k])]
    IN  AssignLoop(rs, row_widths, SeqSum(row_widths), toks, 1, 0)

\* The synthetic rect below the last element of final_output.
SyntheticRect(last_rect) ==
    LET h0 == last_rect[4] - last_rect[2]
        h == IF h0 < 20 THEN 20 ELSE h0
        new_y0 == last_rect[4] + (h \div 5)
        new_y1 == new_y0 + h
    IN  IF new_y1 > 980
        THEN <<50, Max(900, 980 - h), 950, 980>>
        ELSE <<50, new_y0, 950, new_y1>>

\* Mutant of DefaultRect: orphaned text with no prior element put on the full page.
DefaultRectFullPage == <<0, 0, 1000, 1000>>

\* `[0.0, 0.0, 1.0, 0.1]`
DefaultRect == <<0, 0, 1000, 100>>
\* `[0.0, 0.0, 1.0, 1.0]`
FullPageRect == <<0, 0, 1000, 1000>>

\* The element appended for a gap that has tokens and no boxes.
OrphanElement(out, toks) ==
    <<IF out # <<>> THEN SyntheticRect(out[Len(out)][1]) ELSE DefaultRect,
      join(<<" ">>, toks)>>

\* One iteration of `for anchor in matches`.
ReconstructStep ==
    /\ pc = "reconstruct"
    /\ anchor_pos < Len(matches)
    /\ LET anchor == matches[anchor_pos + 1]
           curr_box_idx == anchor.box_idx
           curr_llm_idx == anchor.llm_idx
           gt == Slice(llm_tokens, prev_llm_idx + 1, curr_llm_idx)
           gb == Slice(structured_data, prev_box_idx + 1, curr_box_idx)
           rs == IF gt # <<>> /\ gb # <<>> THEN GroupRows(gb) ELSE <<>>
           out == IF gt = <<>> THEN <<>>
                  ELSE IF gb # <<>> THEN GapRowElements(gt, rs)
                  ELSE <<OrphanElement(final_output, gt)>>
       IN  /\ gap_tokens' = gt
           /\ gap_boxes' = gb
           /\ rows' = rs
           /\ total_width' = SeqSum([k \in 1..Len(rs) |-> RowWidth(rs[k])])
           /\ gap_out' = out
           /\ final_output' =
                  IF anchor.text # None
                  THEN (final_output \o out) \o <<<<anchor.rect, anchor.text>>>>
                  ELSE final_output \o out
           /\ prev_box_idx' = curr_box_idx
           /\ prev_llm_idx' = curr_llm_idx
    /\ anchor_pos' = anchor_pos + 1
    /\ UNCHANGED <<pc, results, img, structured_data, llm_text, full_llm_text,
                   llm_tokens, box_idx, llm_search_idx, match, matches, ret>>

\* `if not final_output and structured_data`
FullPageFallback(out, sd) == out = <<>> /\ sd # <<>>

\* The end of align_text: the full-page fallback or final_output.
Finish ==
    /\ pc = "reconstruct"
    /\ anchor_pos = Len(matches)
    /\ ret' = IF FullPageFallback(final_output, structured_data)
              THEN <<<<FullPageRect, full_llm_text \o <<"\n">>>>>>
              ELSE final_output
    /\ pc' = "done"
    /\ UNCHANGED <<results, img, structured_data, llm_text, full_llm_text,
                   llm_tokens, box_idx, llm_search_idx, match, matches, anchor_pos,
                   prev_box_idx, prev_llm_idx, gap_tokens, gap_boxes, rows,
                   total_width, gap_out, final_output>>

Next ==
    \/ GetStructuredText
    \/ AlignPassthrough
    \/ AlignStart
    \/ MatchSkip
    \/ MatchEmptyWindow
    \/ MatchAccept
    \/ MatchReject
    \/ BeginReconstruct
    \/ ReconstructStep
    \/ Finish

Spec == Init /\ [][Next]_vars

(***************************************************************************)
(* Properties                                                              *)
(***************************************************************************)
RECURSIVE Flatten(_)
Flatten(ss) == IF ss = <<>> THEN <<>> ELSE ss[1] \o Flatten(Tail(ss))

\* The surface-form tokens of a list of elements, in output order.
TextTokens(out) == Flatten([k \in 1..Len(out) |-> split(out[k][2])])

\* The real anchors of matches (the end sentinel has text None).
IsAnchor(m) == m.text # None
NumAnchors == Cardinality({i \in 1..Len(matches) : IsAnchor(matches[i])})

\* The content has at least one token and align_text has returned.
AlignedDone == pc = "done" /\ llm_tokens # <<>>

\* C1: the anchors emitted by the matching pass, in emission order, are strictly
\* increasing in box_idx and strictly increasing in llm_idx.
C1_AnchorsStrictlyIncreasing ==
    \A i \in 1..(Len(matches) - 1) :
        (IsAnchor(matches[i]) /\ IsAnchor(matches[i + 1])) =>
            /\ matches[i].box_idx < matches[i + 1].box_idx
            /\ matches[i].llm_idx < matches[i + 1].llm_idx

\* Two anchors have been emitted, the second on a later token than the next one.
C1_Witness ==
    /\ pc = "reconstruct"
    /\ NumAnchors >= 2
    /\ matches[2].llm_idx > matches[1].llm_idx + 1

\* C2: token conservation: the whitespace-split tokens of the returned elements,
\* read in output order, are exactly the input token sequence.
C2_TokenConservation ==
    AlignedDone => TextTokens(ret) = llm_tokens

\* C3: zero anchors and a non-empty list of boxes (content with a token) give
\* exactly the full-page element: rect [0,0,1,1], text = content + newline.
C3_ZeroAnchorsFullPage ==
    (AlignedDone /\ NumAnchors = 0 /\ structured_data # <<>>) =>
        ret = <<<<(<<0, 0, 1000, 1000>>), full_llm_text \o <<"\n">>>>>>

\* The content text is empty or absent: None, or no line with a character.
ContentEmpty ==
    \/ llm_text.kind = "none"
    \/ llm_text.kind = "str" /\ llm_text.s = <<>>
    \/ llm_text.kind = "list" /\ \A k \in 1..Len(llm_text.lines) : llm_text.lines[k] = <<>>

\* C4: passthrough: for empty or absent content align_text returns the boxes
\* unchanged and attempts no matching and no reconstruction.
C4_Passthrough ==
    (pc = "done" /\ ContentEmpty) =>
        /\ ret = structured_data
        /\ matches = <<>>
        /\ box_idx = 0
        /\ anchor_pos = 0
        /\ final_output = <<>>

\* Empty content has been passed through with several boxes.
C4_Witness ==
    /\ pc = "done"
    /\ ContentEmpty
    /\ Len(structured_data) >= 2
    /\ ret = structured_data

\* The best score of the current box over its window exceeds 80.
SomeCandidateAbove80 ==
    LET cb == clean_text(CurBox[2])
    IN  \E j \in (llm_search_idx + 1)..Min(Len(llm_tokens), llm_search_idx + 100) :
            LET cc == clean_text(llm_tokens[j])
            IN  100 * 2 * LCS(cb, cc) > 80 * (Len(cb) + Len(cc))

\* C5: threshold boundary: a box with non-empty normalized text and a non-empty
\* window produces an anchor iff its maximal score is strictly greater than 80.
C5_ThresholdBoundary ==
    [][(/\ pc = "match"
        /\ box_idx < Len(structured_data)
        /\ clean_text(CurBox[2]) # <<>>
        /\ llm_search_idx < Len(llm_tokens))
       => ((/\ Len(matches') = Len(matches) + 1
            /\ matches'[Len(matches')].box_idx = box_idx)
           <=> SomeCandidateAbove80)]_vars

\* A box whose best score is exactly 80 has just been rejected, after an
\* earlier box was accepted.
C5_Witness ==
    /\ pc = "match"
    /\ box_idx >= 2
    /\ match.found
    /\ 100 * match.score.num = 80 * match.score.den
    /\ matches # <<>>
    /\ matches[Len(matches)].box_idx < box_idx - 1

\* C6: get_structured_text outputs no box of zero area and no box whose text
\* is empty after trimming.
C6_NoDegenerateBox ==
    pc # "extract" =>
        \A k \in 1..Len(structured_data) :
            /\ (structured_data[k][1][3] - structured_data[k][1][1])
                   * (structured_data[k][1][4] - structured_data[k][1][2]) > 0
            /\ strip(structured_data[k][2]) # <<>>

\* C7: no boxes and content with a token give exactly one element, with the
\* default rect [0.0, 0.0, 1.0, 0.1] and all tokens joined by single spaces.
C7_EmptyBoxesDefaultRect ==
    (AlignedDone /\ structured_data = <<>>) =>
        ret = <<<<(<<0, 0, 1000, 100>>), join(<<" ">>, llm_tokens)>>>>

\* No boxes, several tokens, align_text has returned.
C7_Witness ==
    /\ AlignedDone
    /\ structured_data = <<>>
    /\ Len(llm_tokens) >= 2
    /\ Len(ret) = 1

\* C8: a gap with tokens and boxes whose rows' widths total zero emits exactly
\* one gap-row element, carrying every gap token once.
C8_ZeroWidthSingleRow ==
    (gap_tokens # <<>> /\ gap_boxes # <<>> /\ total_width = 0) =>
        /\ Len(gap_out) = 1
        /\ split(gap_out[1][2]) = gap_tokens

\* C9: the cursor starts at 0, never decreases, never exceeds the number of
\* tokens, and changes only when a box is accepted, to the matched index plus
\* one; a skipped, window-less or rejected box leaves cursor and anchors alone.
C9_CursorFrame ==
    [][/\ llm_search_idx' >= llm_search_idx
       /\ llm_search_idx' <= Len(llm_tokens')
       /\ (pc = "align" => llm_search_idx' = 0)
       /\ (llm_search_idx' # llm_search_idx =>
              /\ pc = "match"
              /\ matches' # matches
              /\ SubSeq(matches', 1, Len(matches)) = matches
              /\ Len(matches') = Len(matches) + 1
              /\ matches'[Len(matches')].box_idx = box_idx
              /\ llm_search_idx' = matches'[Len(matches')].llm_idx + 1)
       /\ ((/\ pc = "match"
            /\ box_idx < Len(structured_data)
            /\ (\/ clean_text(CurBox[2]) = <<>>
                \/ llm_search_idx >= Len(llm_tokens)
                \/ ~SomeCandidateAbove80))
           => (llm_search_idx' = llm_search_idx /\ matches' = matches))]_vars

\* After an anchor the window is empty: a later box found no candidate.
C9_Witness ==
    /\ pc = "match"
    /\ box_idx >= 2
    /\ matches # <<>>
    /\ llm_search_idx = Len(llm_tokens)
    /\ ~match.found

\* The 1-based row holding the k-th gap box, by the rows' lengths.
RowOf(k) ==
    CHOOSE r \in 1..Len(rows) :
        /\ SeqSum([q \in 1..(r - 1) |-> Len(rows[q])]) < k
        /\ k <= SeqSum([q \in 1..r |-> Len(rows[q])])

\* Vertical intersection above half of the shorter height, for two boxes.
OverlapsHalf(a, b) ==
    LET ya0 == a[1][2]
        ya1 == a[1][4]
        yb0 == b[1][2]
        yb1 == b[1][4]
        lo == IF ya0 > yb0 THEN ya0 ELSE yb0
        hi == IF ya1 < yb1 THEN ya1 ELSE yb1
        inter == IF hi - lo > 0 THEN hi - lo ELSE 0
        shorter == IF ya1 - ya0 < yb1 - yb0 THEN ya1 - ya0 ELSE yb1 - yb0
    IN  2 * inter > shorter

\* C10: the rows of a gap are non-empty consecutive runs whose concatenation is
\* the gap's boxes in order, and a box joins the row of the box before it iff
\* it overlaps that box by more than half of the shorter height.
C10_RowGrouping ==
    (gap_tokens # <<>> /\ gap_boxes # <<>>) =>
        /\ rows # <<>>
        /\ \A r \in 1..Len(rows) : rows[r] # <<>>
        /\ Flatten(rows) = gap_boxes
        /\ \A k \in 1..(Len(gap_boxes) - 1) :
               (RowOf(k) = RowOf(k + 1)) <=> OverlapsHalf(gap_boxes[k], gap_boxes[k + 1])

\* A row of three boxes whose third does not overlap the first by half.
C10_Witness ==
    /\ gap_tokens # <<>>
    /\ Len(gap_boxes) = 3
    /\ Len(rows) = 1
    /\ ~OverlapsHalf(gap_boxes[1], gap_boxes[3])

====
